---------------------------- MODULE Spec2Model ----------------------------
(***************************************************************************)
(* Model of the nerdbuntu document engine:                                 *)
(*   - LargeDocumentHandler (core/large_document_handler.py): section      *)
(*     splitting, merging, bounded splitting with overlap, batch runs;     *)
(*   - LocalLLMTopicGenerator.cluster_by_similarity;                       *)
(*   - TopicSplitter (core/topic_splitter.py): topic detection with the    *)
(*     header fallback, semantic links;                                    *)
(*   - SemanticLinker.extract_key_concepts and its azure_available flag;   *)
(*   - NerdbuntuApp (gui/app.py): the Process button, the worker threads   *)
(*     it starts and the counters of a bulk run.                           *)
(*                                                                         *)
(* A text is a sequence of tokens: a word, or the line break "\n".  A line *)
(* is the sequence of its words; a header line starts with a token made of *)
(* '#' characters ("#", "##", "###").                                      *)
(***************************************************************************)
EXTENDS Integers, Sequences, FiniteSets, TLC

VARIABLES
    \* LargeDocumentHandler.prepare_document
    pc,             \* position in the pipeline
    markdown_text,  \* the document
    max_words,      \* max_chunk_words of the handler
    min_words,      \* min_words given to merge_small_sections
    sections,       \* the list split_by_sections returned (its dicts are shared)
    merged,         \* the list merge_small_sections returned
    chunks,         \* the list split_large_sections returned
    chunk_meta,     \* per chunk: source section, number of overlap lines (ghost)
    stats,          \* the statistics prepare_document returned
    \* LargeDocumentHandler.process_in_batches
    b_pc,           \* position in the loop
    b_sections,     \* the chunk list given
    process_func,   \* what process_func does on the i-th chunk
    has_callback,   \* whether a progress_callback was given
    b_i,            \* the loop index i of enumerate(sections, 1)
    results,        \* the result list
    progress,       \* the messages given to progress_callback (ghost)
    calls,          \* the chunks process_func was invoked on, in order (ghost)
    \* LocalLLMTopicGenerator.cluster_by_similarity
    c_pc,
    c_n,            \* n = len(embeddings_array)
    similarities,   \* the similarity matrix, in tenths, of the pairs i < j
    threshold,      \* in tenths
    clusters,       \* the list returned
    \* TopicSplitter.generate_semantic_links
    l_pc,
    topic_names,    \* list(topic_embeddings.keys()): the keys of topic_contents in order
    topic_sims,     \* cosine similarity of the embeddings of two topics, in tenths
    similarity_threshold,
    links,          \* the dict returned
    \* TopicSplitter.detect_topics
    t_pc,
    t_lines,        \* markdown_text.split('\n'), each line a sequence of characters
    min_topics,
    max_topics,     \* read by the prompt and the log only
    ai_response,    \* what self.client.complete did
    ai_calls,       \* number of calls of the AI collaborator (ghost)
    topics,         \* the list detect_topics returned
    t_path,         \* how detect_topics returned: "ai", "fallback"
    \* SemanticLinker (and SemanticLinkerQdrant, whose code is the same)
    azure_available,
    progress_callback,  \* whether a callback is set
    collection,         \* whether initialize_vector_db was called
    k_ai_calls,         \* number of calls of the AI collaborator (ghost)
    k_last,             \* the last operation, its outcome and what it returned (ghost)
    \* NerdbuntuApp
    process_btn,        \* the state option of the Process button
    ui_queue,           \* the callbacks given to root.after(0, ...) that set that option
    workers,            \* the threads started, in order, each with its position
    bulk_stats,
    output_files        \* the stems of the files whose output exists in output_dir

docVars ==
    <<pc, markdown_text, max_words, min_words, sections, merged, chunks, chunk_meta, stats>>

batchVars == <<b_pc, b_sections, process_func, has_callback, b_i, results, progress, calls>>

clusterVars == <<c_pc, c_n, similarities, threshold, clusters>>

linkVars == <<l_pc, topic_names, topic_sims, similarity_threshold, links>>

topicVars == <<t_pc, t_lines, min_topics, max_topics, ai_response, ai_calls, topics, t_path>>

linkerVars == <<azure_available, progress_callback, collection, k_ai_calls, k_last>>

guiVars ==
    <<process_btn, ui_queue, workers, bulk_stats, output_files>>

vars == <<docVars, batchVars, clusterVars, linkVars, topicVars, linkerVars, guiVars>>

-----------------------------------------------------------------------------
(* Bounds of the document family *)
MaxHead == 2
ExtraRun == 1
MaxTail == 1
MaxChunkWords == 2
MaxMinWords == 3

(* Lines of the document family *)
Blank == <<>>
WordLine == <<"w">>
H1Line == <<"#", "A">>
H2Line == <<"##", "B">>
H3Line == <<"###", "C">>
LineAlphabet == {Blank, WordLine, H1Line, H2Line, H3Line}
\* the lines that follow the run of blank lines
TailAlphabet == {WordLine, H1Line}

SeqsUpTo(S, n) == UNION {[1..k -> S] : k \in 0..n}

BlankRun(k) == [i \in 1..k |-> Blank]

\* the literal 20 of "last 20 lines for context" in split_large_sections
OverlapCount == 20

\* Lengths of the run of blank lines: none, one, and those that put a part of
\* split_large_sections around OverlapCount lines.
RunLengths == {0, 1} \cup ((OverlapCount - MaxHead)..(OverlapCount + ExtraRun))

\* Documents: a short head, a run of blank lines, a short tail; at least one
\* line, as str.split('\n') never returns an empty list.
Docs ==
    {d \in {h \o BlankRun(k) \o t : h \in SeqsUpTo(LineAlphabet, MaxHead),
                                     k \in RunLengths,
                                     t \in SeqsUpTo(TailAlphabet, MaxTail)} :
        Len(d) >= 1}

-----------------------------------------------------------------------------
(* Text helpers *)

RECURSIVE JoinLines(_)
\* '\n'.join(lines)
JoinLines(lines) ==
    IF lines = <<>> THEN <<>>
    ELSE IF Len(lines) = 1 THEN lines[1]
    ELSE lines[1] \o <<"\n">> \o JoinLines(Tail(lines))

RECURSIVE SplitLinesFrom(_, _, _)
SplitLinesFrom(text, i, cur) ==
    IF i > Len(text) THEN <<cur>>
    ELSE IF text[i] = "\n" THEN <<cur>> \o SplitLinesFrom(text, i + 1, <<>>)
    ELSE SplitLinesFrom(text, i + 1, Append(cur, text[i]))

\* text.split('\n')
SplitLines(text) == SplitLinesFrom(text, 1, <<>>)

RECURSIVE CountWords(_, _)
CountWords(text, i) ==
    IF i > Len(text) THEN 0
    ELSE (IF text[i] = "\n" THEN 0 ELSE 1) + CountWords(text, i + 1)

\* len(text.split())
estimate_words(text) == CountWords(text, 1)

\* number of leading '#' of a token
HashCount(tok) ==
    CASE tok = "#" -> 1
      [] tok = "##" -> 2
      [] tok = "###" -> 3
      [] OTHER -> 0

\* line.startswith('#')
StartsWithHash(line) == Len(line) > 0 /\ HashCount(line[1]) > 0

\* len(line) - len(line.lstrip('#'))
HeaderLevel(line) == HashCount(line[1])

\* line.lstrip('#').strip()
HeaderText(line) == Tail(line)

-----------------------------------------------------------------------------
(* LargeDocumentHandler.split_by_sections *)

\* the dict current_section starts as
IntroSection ==
    [header |-> <<"Introduction">>, level |-> 1, start_line |-> 0, lines |-> <<>>]

\* mutant of StartSection: the header line is not put into the new section
StartSectionWithoutHeaderLine(line, i) ==
    [header |-> HeaderText(line), level |-> HeaderLevel(line),
     start_line |-> i, lines |-> <<>>]

\* the dict built for a line that is a header of level 1 or 2, at index i
StartSection(line, i) ==
    [header |-> HeaderText(line), level |-> HeaderLevel(line),
     start_line |-> i, lines |-> <<line>>]

\* end_line, content and word_count set on a section before it is appended
CloseSection(cur, end) ==
    [header |-> cur.header, level |-> cur.level, start_line |-> cur.start_line,
     lines |-> cur.lines, end_line |-> end,
     content |-> JoinLines(cur.lines),
     word_count |-> estimate_words(JoinLines(cur.lines))]

\* mutant of SplitsHere: every header line splits, whatever its level
SplitsAtAnyHeader(line) == StartsWithHash(line)

\* Only split on H1 or H2
SplitsHere(line) == StartsWithHash(line) /\ HeaderLevel(line) <= 2

RECURSIVE SplitBySectionsLoop(_, _, _, _)
\* i is the 0-based index of enumerate(lines)
SplitBySectionsLoop(lines, i, secs, cur) ==
    IF i >= Len(lines)
    THEN IF cur.lines # <<>> THEN Append(secs, CloseSection(cur, Len(lines))) ELSE secs
    ELSE LET line == lines[i + 1] IN
         IF SplitsHere(line)
         THEN SplitBySectionsLoop(lines, i + 1,
                  IF cur.lines # <<>> THEN Append(secs, CloseSection(cur, i)) ELSE secs,
                  StartSection(line, i))
         ELSE SplitBySectionsLoop(lines, i + 1, secs,
                  [cur EXCEPT !.lines = Append(@, line)])

split_by_sections(text) == SplitBySectionsLoop(SplitLines(text), 0, <<>>, IntroSection)

-----------------------------------------------------------------------------
(* LargeDocumentHandler.merge_small_sections                               *)
(* current_merged is a shallow copy of a section of the input: its 'lines' *)
(* list is the input section's own list, so extending it changes the input *)
(* section too.  The loop returns the merged list and the input list as    *)
(* the call leaves it.                                                     *)

\* mutant of Absorb: the absorbed section's lines are put in front
AbsorbInFront(cur, section) ==
    [cur EXCEPT !.lines = section.lines \o cur.lines,
                !.content = JoinLines(section.lines \o cur.lines),
                !.word_count = estimate_words(JoinLines(section.lines \o cur.lines)),
                !.end_line = section.end_line,
                !.header = cur.header \o <<"&">> \o section.header]

\* the accumulator after it absorbed `section`
Absorb(cur, section) ==
    [cur EXCEPT !.lines = cur.lines \o section.lines,
                !.content = JoinLines(cur.lines \o section.lines),
                !.word_count = estimate_words(JoinLines(cur.lines \o section.lines)),
                !.end_line = section.end_line,
                !.header = cur.header \o <<"&">> \o section.header]

\* mutant of KeepMerging: merging stops one word short of min_words
KeepMergingStopsEarly(cur, min) == cur.word_count < min - 1

\* If current merged section is too small, keep merging
KeepMerging(cur, min) == cur.word_count < min

RECURSIVE MergeLoop(_, _, _, _, _, _)
\* i: index (1-based) of the section visited; k: index of the input section
\* whose 'lines' list current_merged shares
MergeLoop(secs, i, out, cur, k, min) ==
    IF i > Len(secs)
    THEN [merged |-> Append(out, cur), sections |-> secs]
    ELSE IF KeepMerging(cur, min)
         THEN LET next == Absorb(cur, secs[i]) IN
              MergeLoop([secs EXCEPT ![k].lines = next.lines], i + 1, out, next, k, min)
         ELSE MergeLoop(secs, i + 1, Append(out, cur), secs[i], i, min)

merge_small_sections(secs, min) ==
    IF secs = <<>> THEN [merged |-> <<>>, sections |-> secs]
    ELSE MergeLoop(secs, 2, <<>>, secs[1], 1, min)

-----------------------------------------------------------------------------
(* LargeDocumentHandler.split_large_sections *)

LastLines(s, n) == SubSeq(s, Len(s) - n + 1, Len(s))

\* mutant of OverlapLines: the first lines of the chunk are taken
OverlapLinesFromStart(chunk_lines) ==
    IF Len(chunk_lines) > OverlapCount THEN SubSeq(chunk_lines, 1, OverlapCount) ELSE <<>>

\* overlap_lines = chunk_lines[-20:] if len(chunk_lines) > 20 else []
OverlapLines(chunk_lines) ==
    IF Len(chunk_lines) > OverlapCount THEN LastLines(chunk_lines, OverlapCount) ELSE <<>>

RECURSIVE SumWords(_)
\* sum(self.estimate_words(l) for l in chunk_lines)
SumWords(lines) ==
    IF lines = <<>> THEN 0 ELSE estimate_words(lines[1]) + SumWords(Tail(lines))

\* the words of the chunk that starts with the overlap lines
SeededWords(chunk_lines) == SumWords(chunk_lines)

\* mutant of PartHeader: the part is labelled with the number of the next one
PartHeaderOfNext(header, n) == header \o <<"(Part", ToString(n + 1), ")">>

\* f"{section['header']} (Part {chunk_num})"
PartHeader(header, n) == header \o <<"(Part", ToString(n), ")">>

ChunkSection(section, header, chunk_lines, chunk_words) ==
    [header |-> header, level |-> section.level,
     content |-> JoinLines(chunk_lines), word_count |-> chunk_words,
     lines |-> chunk_lines]

\* the test that flushes the current chunk before `line` is added
MustFlush(chunk_lines, chunk_words, line_words, max) ==
    chunk_words + line_words > max /\ chunk_lines # <<>>

RECURSIVE SplitLinesLoop(_, _, _, _, _, _, _, _, _)
\* the loop over the lines of one oversized section; `src` is its index in
\* the input and `ov` the number of overlap lines the current chunk started with
SplitLinesLoop(section, src, i, chunk_lines, chunk_words, chunk_num, ov, acc, max) ==
    IF i > Len(section.lines)
    THEN IF chunk_lines # <<>>
         THEN [result |-> Append(acc.result,
                   ChunkSection(section,
                       IF chunk_num > 1 THEN PartHeader(section.header, chunk_num)
                                        ELSE section.header,
                       chunk_lines, chunk_words)),
               meta |-> Append(acc.meta, [src |-> src, overlap |-> ov, split |-> TRUE])]
         ELSE acc
    ELSE LET line == section.lines[i]
             line_words == estimate_words(line)
         IN  IF MustFlush(chunk_lines, chunk_words, line_words, max)
             THEN LET overlap_lines == OverlapLines(chunk_lines)
                      seeded == overlap_lines \o <<line>>
                  IN  SplitLinesLoop(section, src, i + 1, seeded, SeededWords(seeded),
                          chunk_num + 1, Len(overlap_lines),
                          [result |-> Append(acc.result,
                               ChunkSection(section, PartHeader(section.header, chunk_num),
                                            chunk_lines, chunk_words)),
                           meta |-> Append(acc.meta,
                               [src |-> src, overlap |-> ov, split |-> TRUE])],
                          max)
             ELSE SplitLinesLoop(section, src, i + 1, Append(chunk_lines, line),
                      chunk_words + line_words, chunk_num, ov, acc, max)

RECURSIVE SplitLargeLoop(_, _, _, _)
SplitLargeLoop(secs, s, acc, max) ==
    IF s > Len(secs) THEN acc
    ELSE IF secs[s].word_count <= max
         THEN SplitLargeLoop(secs, s + 1,
                  [result |-> Append(acc.result, secs[s]),
                   meta |-> Append(acc.meta, [src |-> s, overlap |-> 0, split |-> FALSE])],
                  max)
         ELSE SplitLargeLoop(secs, s + 1,
                  SplitLinesLoop(secs[s], s, 1, <<>>, 0, 1, 0, acc, max), max)

split_large_sections(secs, max) ==
    SplitLargeLoop(secs, 1, [result |-> <<>>, meta |-> <<>>], max)

-----------------------------------------------------------------------------
(* LargeDocumentHandler.prepare_document, one action per step *)

\* no statistics yet
NoStats ==
    [total_words |-> 0, total_chunks |-> 0, avg_words_per_chunk |-> 0,
     largest_chunk |-> 0, smallest_chunk |-> 0]

DocIdle ==
    /\ pc = "idle" /\ markdown_text = <<>> /\ max_words = 0 /\ min_words = 0
    /\ sections = <<>> /\ merged = <<>> /\ chunks = <<>> /\ chunk_meta = <<>>
    /\ stats = NoStats

BatchIdle ==
    /\ b_pc = "idle" /\ b_sections = <<>> /\ process_func = <<>>
    /\ has_callback = FALSE /\ b_i = 0
    /\ results = <<>> /\ progress = <<>> /\ calls = <<>>

ClusterIdle ==
    /\ c_pc = "idle" /\ c_n = 0 /\ similarities = <<>> /\ threshold = 0
    /\ clusters = <<>>

LinkIdle ==
    /\ l_pc = "idle" /\ topic_names = <<>> /\ topic_sims = <<>>
    /\ similarity_threshold = 0 /\ links = <<>>

NoResponse == [kind |-> "none", items |-> <<>>]

TopicIdle ==
    /\ t_pc = "idle" /\ t_lines = <<>> /\ min_topics = 0 /\ max_topics = 0
    /\ ai_response = NoResponse /\ ai_calls = 0 /\ topics = <<>> /\ t_path = "none"

NoOperation ==
    [op |-> "none", outcome |-> "none", invoked |-> FALSE, returned |-> <<>>,
     raised |-> FALSE]

\* SemanticLinker.__init__
LinkerConstructed ==
    /\ azure_available = TRUE /\ progress_callback = FALSE /\ collection = FALSE
    /\ k_ai_calls = 0 /\ k_last = NoOperation

\* self.bulk_stats of NerdbuntuApp.__init__
NoBulkStats == [total |-> 0, processed |-> 0, successful |-> 0, failed |-> 0, skipped |-> 0]

\* NerdbuntuApp.__init__ and setup_ui
AppConstructed ==
    /\ process_btn = "normal" /\ ui_queue = <<>> /\ workers = <<>>
    /\ bulk_stats = NoBulkStats

GuiIdle == AppConstructed /\ output_files = {}

InitDoc ==
    /\ BatchIdle /\ ClusterIdle /\ LinkIdle /\ TopicIdle /\ LinkerConstructed /\ GuiIdle
    /\ pc = "start"
    /\ markdown_text \in {JoinLines(d) : d \in Docs}
    /\ max_words \in 1..MaxChunkWords
    /\ min_words \in 0..MaxMinWords
    /\ sections = <<>> /\ merged = <<>> /\ chunks = <<>> /\ chunk_meta = <<>>
    /\ stats = NoStats

\* Step 1: sections = self.split_by_sections(markdown_text)
SplitBySections ==
    /\ pc = "start"
    /\ sections' = split_by_sections(markdown_text)
    /\ pc' = "split"
    /\ UNCHANGED <<markdown_text, max_words, min_words, merged, chunks, chunk_meta, stats>>
    /\ UNCHANGED <<batchVars, clusterVars, linkVars, topicVars, linkerVars, guiVars>>

\* Step 2: sections = self.merge_small_sections(sections, min_words)
MergeSmallSections ==
    /\ pc = "split"
    /\ LET r == merge_small_sections(sections, min_words) IN
          /\ merged' = r.merged
          /\ sections' = r.sections
    /\ pc' = "merged"
    /\ UNCHANGED <<markdown_text, max_words, min_words, chunks, chunk_meta, stats>>
    /\ UNCHANGED <<batchVars, clusterVars, linkVars, topicVars, linkerVars, guiVars>>

\* Step 3: sections = self.split_large_sections(sections, max_words)
SplitLargeSections ==
    /\ pc = "merged"
    /\ LET r == split_large_sections(merged, max_words) IN
          /\ chunks' = r.result
          /\ chunk_meta' = r.meta
    /\ pc' = "done"
    /\ UNCHANGED <<markdown_text, max_words, min_words, sections, merged, stats>>
    /\ UNCHANGED <<batchVars, clusterVars, linkVars, topicVars, linkerVars, guiVars>>

RECURSIVE LargestCount(_)
\* max((s['word_count'] for s in sections), default=0)
LargestCount(secs) ==
    IF secs = <<>> THEN 0
    ELSE IF Len(secs) = 1 THEN secs[1].word_count
    ELSE LET rest == LargestCount(Tail(secs)) IN
         IF secs[1].word_count >= rest THEN secs[1].word_count ELSE rest

RECURSIVE SmallestCount(_)
\* min((s['word_count'] for s in sections), default=0)
SmallestCount(secs) ==
    IF secs = <<>> THEN 0
    ELSE IF Len(secs) = 1 THEN secs[1].word_count
    ELSE LET rest == SmallestCount(Tail(secs)) IN
         IF secs[1].word_count <= rest THEN secs[1].word_count ELSE rest

\* the stats dict; total_words is the word count of the whole text
Statistics(text, secs) ==
    [total_words |-> estimate_words(text),
     total_chunks |-> Len(secs),
     avg_words_per_chunk |-> IF secs # <<>> THEN estimate_words(text) \div Len(secs) ELSE 0,
     largest_chunk |-> LargestCount(secs),
     smallest_chunk |-> SmallestCount(secs)]

\* the statistics are built and prepare_document returns sections, stats
ReturnStatistics ==
    /\ pc = "done"
    /\ stats' = Statistics(markdown_text, chunks)
    /\ pc' = "returned"
    /\ UNCHANGED <<markdown_text, max_words, min_words, sections, merged, chunks, chunk_meta>>
    /\ UNCHANGED <<batchVars, clusterVars, linkVars, topicVars, linkerVars, guiVars>>

NextDoc == SplitBySections \/ MergeSmallSections \/ SplitLargeSections \/ ReturnStatistics

SpecDoc == InitDoc /\ [][NextDoc]_vars

-----------------------------------------------------------------------------
(* LargeDocumentHandler.process_in_batches, one action per step of the loop *)

MaxChunks == 3

\* the chunks given: process_in_batches reads only their header
BatchChunks == {[header |-> <<"A">>], [header |-> <<"B">>]}

\* what a call of process_func does: it returns a value or raises an Exception
Outcomes ==
    {[raises |-> FALSE, value |-> "r1"], [raises |-> FALSE, value |-> "r2"],
     [raises |-> TRUE, value |-> "e1"]}

InitBatch ==
    /\ DocIdle /\ ClusterIdle /\ LinkIdle /\ TopicIdle /\ LinkerConstructed /\ GuiIdle
    /\ b_pc = "loop"
    /\ b_sections \in SeqsUpTo(BatchChunks, MaxChunks)
    /\ process_func \in [1..Len(b_sections) -> Outcomes]
    /\ has_callback \in BOOLEAN
    /\ b_i = 1
    /\ results = <<>> /\ progress = <<>> /\ calls = <<>>

\* mutant of ChunkMessage: the chunks are counted from 0
ChunkMessageFromZero(i, total, section) ==
    [kind |-> "chunk", i |-> i - 1, total |-> total, header |-> section.header]

\* progress_callback(f"Processing chunk {i}/{total}: {section['header']}")
ChunkMessage(i, total, section) ==
    [kind |-> "chunk", i |-> i, total |-> total, header |-> section.header]

\* progress_callback(f"  Error: {e}")
ErrorMessage(e) == [kind |-> "error", text |-> e]

\* mutant of OnResult: the entry is put in front of the list
OnResultInFront(res, section, result) ==
    <<[section |-> section, result |-> result, success |-> TRUE]>> \o res

\* results.append({'section': section, 'result': result, 'success': True})
OnResult(res, section, result) ==
    Append(res, [section |-> section, result |-> result, success |-> TRUE])

\* mutant of OnException: the failed chunk gets no entry
OnExceptionDropsEntry(res, section, e) == res

\* results.append({'section': section, 'error': str(e), 'success': False})
OnException(res, section, e) ==
    Append(res, [section |-> section, error |-> e, success |-> FALSE])

\* top of an iteration: the progress notification of chunk i
BatchNotify ==
    /\ b_pc = "loop"
    /\ b_i <= Len(b_sections)
    /\ progress' = IF has_callback
                   THEN Append(progress,
                               ChunkMessage(b_i, Len(b_sections), b_sections[b_i]))
                   ELSE progress
    /\ b_pc' = "call"
    /\ UNCHANGED <<b_sections, process_func, has_callback, b_i, results, calls>>
    /\ UNCHANGED <<docVars, clusterVars, linkVars, topicVars, linkerVars, guiVars>>

\* result = process_func(section) returns
BatchProcessReturns ==
    /\ b_pc = "call"
    /\ ~process_func[b_i].raises
    /\ calls' = Append(calls, b_i)
    /\ results' = OnResult(results, b_sections[b_i], process_func[b_i].value)
    /\ b_i' = b_i + 1
    /\ b_pc' = "loop"
    /\ UNCHANGED <<b_sections, process_func, has_callback, progress>>
    /\ UNCHANGED <<docVars, clusterVars, linkVars, topicVars, linkerVars, guiVars>>

\* result = process_func(section) raises: the except clause
BatchProcessRaises ==
    /\ b_pc = "call"
    /\ process_func[b_i].raises
    /\ calls' = Append(calls, b_i)
    /\ progress' = IF has_callback
                   THEN Append(progress, ErrorMessage(process_func[b_i].value))
                   ELSE progress
    /\ results' = OnException(results, b_sections[b_i], process_func[b_i].value)
    /\ b_i' = b_i + 1
    /\ b_pc' = "loop"
    /\ UNCHANGED <<b_sections, process_func, has_callback>>
    /\ UNCHANGED <<docVars, clusterVars, linkVars, topicVars, linkerVars, guiVars>>

\* the loop is over: return results
BatchReturn ==
    /\ b_pc = "loop"
    /\ b_i > Len(b_sections)
    /\ b_pc' = "done"
    /\ UNCHANGED <<b_sections, process_func, has_callback, b_i, results, progress, calls>>
    /\ UNCHANGED <<docVars, clusterVars, linkVars, topicVars, linkerVars, guiVars>>

NextBatch == BatchNotify \/ BatchProcessReturns \/ BatchProcessRaises \/ BatchReturn

SpecBatch == InitBatch /\ [][NextBatch]_vars

\* C5: process_in_batches returns one entry per chunk, in chunk order, entry i
\* for chunk i; success is false, with the error, exactly where process_func
\* raised; the other entries carry the chunk's own result; process_func was
\* invoked on every chunk, whatever failed before.
C5_BatchIsolatesFailures ==
    b_pc = "done" =>
        /\ Len(results) = Len(b_sections)
        /\ calls = [i \in 1..Len(b_sections) |-> i]
        /\ \A i \in 1..Len(b_sections) :
              /\ results[i].section = b_sections[i]
              /\ results[i].success = ~process_func[i].raises
              /\ process_func[i].raises => results[i].error = process_func[i].value
              /\ ~process_func[i].raises => results[i].result = process_func[i].value

\* chunk 2 of 3 raises and the chunks around it succeed with different results
C5_Witness ==
    /\ b_pc = "done"
    /\ Len(b_sections) = 3
    /\ ~results[1].success /\ results[2].success /\ ~results[3].success
    /\ b_sections[1] # b_sections[3]

-----------------------------------------------------------------------------
(* LocalLLMTopicGenerator.cluster_by_similarity                            *)
(* The similarity matrix the code computes from the embeddings (dot        *)
(* products over norms) is given in tenths; the loop reads only its        *)
(* entries [i][j] with i < j.  Indices are 0-based as in the code.         *)

MaxItems == 4

\* cosine similarities of the family, in tenths
SimLevels == {1, 7, 9}
\* the thresholds a caller may pass, in tenths: 1.2 is outside [0, 1]
ClusterThresholds == {7, 8, 12}

IndexPairs(n) == {p \in (0..(n - 1)) \X (0..(n - 1)) : p[1] < p[2]}

InitCluster ==
    /\ DocIdle /\ BatchIdle /\ LinkIdle /\ TopicIdle /\ LinkerConstructed /\ GuiIdle
    /\ c_pc = "start"
    /\ c_n \in 0..MaxItems
    /\ similarities \in [IndexPairs(c_n) -> SimLevels]
    /\ threshold \in ClusterThresholds
    /\ clusters = <<>>

\* mutant of MarkVisited: visited.add(j) is forgotten
MarkVisitedForgets(visited, j) == visited

\* visited.add(j)
MarkVisited(visited, j) == visited \cup {j}

\* mutant of Joins: the test against the threshold is left out
JoinsWithoutThreshold(sim, i, j, visited, t) == j \notin visited

\* j not in visited and similarities[i][j] >= threshold
Joins(sim, i, j, visited, t) == j \notin visited /\ sim[<<i, j>>] >= t

RECURSIVE AddSimilarStopsAtFirst(_, _, _, _, _, _, _)
\* mutant of AddSimilar: the scan ends at the first index that joins
AddSimilarStopsAtFirst(sim, i, j, n, cluster, visited, t) ==
    IF j >= n THEN [cluster |-> cluster, visited |-> visited]
    ELSE IF Joins(sim, i, j, visited, t)
         THEN [cluster |-> Append(cluster, j), visited |-> MarkVisited(visited, j)]
         ELSE AddSimilarStopsAtFirst(sim, i, j + 1, n, cluster, visited, t)

RECURSIVE AddSimilar(_, _, _, _, _, _, _)
\* for j in range(i + 1, n): the cluster of anchor i and the visited set
AddSimilar(sim, i, j, n, cluster, visited, t) ==
    IF j >= n THEN [cluster |-> cluster, visited |-> visited]
    ELSE IF Joins(sim, i, j, visited, t)
         THEN AddSimilar(sim, i, j + 1, n, Append(cluster, j), MarkVisited(visited, j), t)
         ELSE AddSimilar(sim, i, j + 1, n, cluster, visited, t)

RECURSIVE ClusterLoop(_, _, _, _, _, _)
\* for i in range(n)
ClusterLoop(sim, i, n, visited, out, t) ==
    IF i >= n THEN out
    ELSE IF i \in visited THEN ClusterLoop(sim, i + 1, n, visited, out, t)
    ELSE LET r == AddSimilar(sim, i, i + 1, n, <<i>>, visited \cup {i}, t) IN
         ClusterLoop(sim, i + 1, n, r.visited, Append(out, r.cluster), t)

cluster_by_similarity(sim, n, t) == ClusterLoop(sim, 0, n, {}, <<>>, t)

ClusterBySimilarity ==
    /\ c_pc = "start"
    /\ clusters' = cluster_by_similarity(similarities, c_n, threshold)
    /\ c_pc' = "done"
    /\ UNCHANGED <<c_n, similarities, threshold>>
    /\ UNCHANGED <<docVars, batchVars, linkVars, topicVars, linkerVars, guiVars>>

NextCluster == ClusterBySimilarity

SpecCluster == InitCluster /\ [][NextCluster]_vars

RECURSIVE Flatten(_)
Flatten(ss) == IF ss = <<>> THEN <<>> ELSE ss[1] \o Flatten(Tail(ss))

\* C6: the clusters are a partition of {0..N-1}: every index is in exactly one
\* cluster, exactly once.
C6_ClustersPartitionIndices ==
    c_pc = "done" =>
        LET all == Flatten(clusters) IN
        /\ Len(all) = c_n
        /\ {all[k] : k \in 1..Len(all)} = 0..(c_n - 1)
        /\ \A k \in 1..Len(clusters) : clusters[k] # <<>>

\* 1 and 2 both reach the threshold with 0 and with 3: they join 0's cluster
\* and 3 is left alone
C6_Witness ==
    /\ c_pc = "done"
    /\ c_n = 4
    /\ similarities[<<1, 3>>] >= threshold /\ similarities[<<2, 3>>] >= threshold
    /\ clusters = <<<<0, 1, 2>>, <<3>>>>

-----------------------------------------------------------------------------
(* TopicSplitter.generate_semantic_links                                   *)
(* topic_contents is a dict: its keys are distinct and keep their          *)
(* insertion order.  The cosine similarity of the embeddings of two topics *)
(* is given in tenths; it is the same for (A, B) and (B, A).               *)

MaxTopics == 3

AllTopicNames == <<"A", "B", "C", "D", "E">>
TopicNames == {AllTopicNames[k] : k \in 1..MaxTopics}

LinkLevels == {2, 5, 8}
\* the thresholds a caller may pass, in tenths: -0.1 is outside [0, 1]
LinkThresholds == {-1, 3, 5}

NamePairs == {s \in SUBSET TopicNames : Cardinality(s) = 2}

DistinctSeqs(S, n) ==
    {q \in SeqsUpTo(S, n) : \A a, b \in 1..Len(q) : a # b => q[a] # q[b]}

InitLinks ==
    /\ DocIdle /\ BatchIdle /\ ClusterIdle /\ TopicIdle /\ LinkerConstructed /\ GuiIdle
    /\ l_pc = "start"
    /\ topic_names \in DistinctSeqs(TopicNames, MaxTopics)
    /\ topic_sims \in [NamePairs -> LinkLevels]
    /\ similarity_threshold \in LinkThresholds
    /\ links = <<>>

\* the cosine similarity computed for topic_name and other_name
Similarity(sims, a, b) == sims[{a, b}]

\* mutant of IsLinked: a similarity equal to the threshold is left out
IsLinkedStrictly(similarity, t) == similarity > t

\* if similarity >= similarity_threshold
IsLinked(similarity, t) == similarity >= t

RECURSIVE InsertBeforeTies(_, _)
\* mutant of InsertDesc: x is put in front of the elements with its similarity
InsertBeforeTies(sorted, x) ==
    IF sorted = <<>> THEN <<x>>
    ELSE IF sorted[1][2] > x[2] THEN <<sorted[1]>> \o InsertBeforeTies(Tail(sorted), x)
    ELSE <<x>> \o sorted

RECURSIVE InsertDesc(_, _)
\* the place of x after every element with a similarity >= its own
InsertDesc(sorted, x) ==
    IF sorted = <<>> THEN <<x>>
    ELSE IF sorted[1][2] >= x[2] THEN <<sorted[1]>> \o InsertDesc(Tail(sorted), x)
    ELSE <<x>> \o sorted

RECURSIVE SortBySimilarity(_)
\* list.sort(key=lambda x: x[1], reverse=True): a stable sort, reverse keeps
\* the order of equal keys
SortBySimilarity(list) ==
    IF list = <<>> THEN <<>>
    ELSE InsertDesc(SortBySimilarity(SubSeq(list, 1, Len(list) - 1)), list[Len(list)])

RECURSIVE LinksOf(_, _, _, _, _)
\* for j, other_name in enumerate(topic_names)
LinksOf(names, sims, i, j, t) ==
    IF j > Len(names) THEN <<>>
    ELSE IF i = j THEN LinksOf(names, sims, i, j + 1, t)
    ELSE IF IsLinked(Similarity(sims, names[i], names[j]), t)
         THEN <<<<names[j], Similarity(sims, names[i], names[j])>>>>
                  \o LinksOf(names, sims, i, j + 1, t)
         ELSE LinksOf(names, sims, i, j + 1, t)

generate_semantic_links(names, sims, t) ==
    [name \in {names[i] : i \in 1..Len(names)} |->
        LET i == CHOOSE k \in 1..Len(names) : names[k] = name IN
        SortBySimilarity(LinksOf(names, sims, i, 1, t))]

GenerateSemanticLinks ==
    /\ l_pc = "start"
    /\ links' = generate_semantic_links(topic_names, topic_sims, similarity_threshold)
    /\ l_pc' = "done"
    /\ UNCHANGED <<topic_names, topic_sims, similarity_threshold>>
    /\ UNCHANGED <<docVars, batchVars, clusterVars, topicVars, linkerVars, guiVars>>

NextLinks == GenerateSemanticLinks

SpecLinks == InitLinks /\ [][NextLinks]_vars

TopicSet == {topic_names[i] : i \in 1..Len(topic_names)}

\* the example of the specification: sim(A,B)=0.8, sim(A,C)=0.5, sim(B,C)=0.2,
\* threshold 0.3
LinkExample ==
    /\ topic_names = <<"A", "B", "C">>
    /\ topic_sims[{"A", "B"}] = 8 /\ topic_sims[{"A", "C"}] = 5
    /\ topic_sims[{"B", "C"}] = 2
    /\ similarity_threshold = 3

\* C7: generate_semantic_links returns an entry for every topic; the entry of
\* A holds (B, sim(A,B)) once for exactly the topics B # A with sim(A,B) >=
\* similarity_threshold, by non-increasing similarity, none left out; on the
\* example it returns A:[(B,0.8),(C,0.5)], B:[(A,0.8)], C:[(A,0.5)].
C7_LinksAreThresholdedAndSorted ==
    l_pc = "done" =>
        /\ DOMAIN links = TopicSet
        /\ \A a \in TopicSet :
              LET l == links[a] IN
              /\ {l[k] : k \in 1..Len(l)} =
                     {<<b, topic_sims[{a, b}]>> : b \in
                         {x \in TopicSet \ {a} : topic_sims[{a, x}] >= similarity_threshold}}
              /\ \A j, k \in 1..Len(l) : j # k => l[j][1] # l[k][1]
              /\ \A k \in 1..(Len(l) - 1) : l[k][2] >= l[k + 1][2]
        /\ LinkExample =>
              links = [n \in {"A", "B", "C"} |->
                          CASE n = "A" -> <<<<"B", 8>>, <<"C", 5>>>>
                            [] n = "B" -> <<<<"A", 8>>>>
                            [] n = "C" -> <<<<"A", 5>>>>]

C7_Witness == l_pc = "done" /\ LinkExample

-----------------------------------------------------------------------------
(* TopicSplitter.detect_topics and _fallback_topic_detection               *)
(* Here a line is the sequence of its characters.                          *)

MaxTopicLines == 3
MaxMinTopics == 2
MaxMaxTopics == 2
MaxRelated == 2
MaxAiTopics == 1

\* "# Ab", "## b", "### a" and a line that is no header
TopicLineAlphabet ==
    {<<"#", " ", "A", "b">>, <<"#", "#", " ", "b">>,
     <<"#", "#", "#", " ", "a">>, <<"x">>}

TopicDocs == {d \in SeqsUpTo(TopicLineAlphabet, MaxTopicLines) : Len(d) >= 1}

RECURSIVE LStripHash(_)
\* line.lstrip('#')
LStripHash(s) == IF s # <<>> /\ s[1] = "#" THEN LStripHash(Tail(s)) ELSE s

RECURSIVE LStripSpace(_)
LStripSpace(s) == IF s # <<>> /\ s[1] = " " THEN LStripSpace(Tail(s)) ELSE s

RECURSIVE RStripSpace(_)
RStripSpace(s) ==
    IF s # <<>> /\ s[Len(s)] = " " THEN RStripSpace(SubSeq(s, 1, Len(s) - 1)) ELSE s

\* str.strip()
Strip(s) == RStripSpace(LStripSpace(s))

LowerChar(c) ==
    CASE c = "A" -> "a"
      [] c = "B" -> "b"
      [] OTHER -> c

\* str.lower()
Lower(s) == [i \in 1..Len(s) |-> LowerChar(s[i])]

\* a in b, for strings
IsSubstring(a, b) ==
    \E k \in 0..(Len(b) - Len(a)) : SubSeq(b, k + 1, k + Len(a)) = a

\* the dict appended to headers for line i (0-based)
HeaderOf(line, i) ==
    [line |-> i, level |-> Len(line) - Len(LStripHash(line)),
     text |-> Strip(LStripHash(line))]

RECURSIVE HeadersFrom(_, _)
\* headers: the lines that start with '#', in document order
HeadersFrom(lines, i) ==
    IF i >= Len(lines) THEN <<>>
    ELSE IF lines[i + 1] # <<>> /\ lines[i + 1][1] = "#"
         THEN <<HeaderOf(lines[i + 1], i)>> \o HeadersFrom(lines, i + 1)
         ELSE HeadersFrom(lines, i + 1)

Headers(lines) == HeadersFrom(lines, 0)

\* the entries the collaborator may give in related_headers
RelatedEntries == {<<"a">>, <<"b">>, <<"z">>}

AllFields == {"topic_name", "description", "keywords", "related_headers"}

\* an element of the JSON array: a JSON object with some of the fields, or
\* something that is no object (a number, a string)
TopicObject(fields, related) ==
    [type |-> "dict", fields |-> fields, topic_name |-> <<"t">>,
     description |-> <<"d">>, related_headers |-> related]

\* an item that is no JSON object: a number, a character of a string, a key
OtherItem ==
    [type |-> "other", fields |-> {}, topic_name |-> <<>>,
     description |-> <<>>, related_headers |-> <<>>]

ArrayElements ==
    {TopicObject(AllFields, r) : r \in SeqsUpTo(RelatedEntries, MaxRelated)}
    \cup {TopicObject(AllFields \ {"keywords"}, <<<<"b">>>>),
          TopicObject(AllFields \ {"related_headers"}, <<>>),
          TopicObject(AllFields \ {"topic_name"}, <<<<"b">>>>),
          OtherItem}

\* what `content` holds after the call returned: text that is no JSON, or the
\* JSON value; items are what iterating the value yields
Responses ==
    {[kind |-> "not_json", items |-> <<>>],
     [kind |-> "scalar", items |-> <<>>],
     [kind |-> "string", items |-> <<>>],
     [kind |-> "string", items |-> <<OtherItem>>],
     [kind |-> "object", items |-> <<>>],
     [kind |-> "object", items |-> <<OtherItem>>]}
    \cup {[kind |-> "array", items |-> q] : q \in SeqsUpTo(ArrayElements, MaxAiTopics)}

InitTopics ==
    /\ DocIdle /\ BatchIdle /\ ClusterIdle /\ LinkIdle /\ LinkerConstructed /\ GuiIdle
    /\ t_pc = "start"
    /\ t_lines \in TopicDocs
    /\ min_topics \in 1..MaxMinTopics
    /\ max_topics \in 1..MaxMaxTopics
    /\ ai_response = NoResponse /\ ai_calls = 0 /\ topics = <<>> /\ t_path = "none"

\* if header_text.lower() in header['text'].lower()
HeaderMatches(header_text, header) == IsSubstring(Lower(header_text), Lower(header.text))

\* the line of the first header after index i (1-based) whose level is <= level,
\* or `none`
RECURSIVE NextBoundary(_, _, _, _)
NextBoundary(headers, j, level, none) ==
    IF j > Len(headers) THEN none
    ELSE IF headers[j].level <= level THEN headers[j].line
    ELSE NextBoundary(headers, j + 1, level, none)

RECURSIVE FirstMatch(_, _, _)
\* index of the first header that header_text matches, 0 when none
FirstMatch(header_text, headers, i) ==
    IF i > Len(headers) THEN 0
    ELSE IF HeaderMatches(header_text, headers[i]) THEN i
    ELSE FirstMatch(header_text, headers, i + 1)

\* if topic['content_start'] > 0: break
FoundStart(content_start) == content_start > 0

RECURSIVE MapRelated(_, _, _, _)
\* for header_text in related_headers: range is <<content_start, content_end>>
MapRelated(related, k, headers, range) ==
    IF k > Len(related) THEN range
    ELSE LET i == FirstMatch(related[k], headers, 1)
             r == IF i = 0 THEN range
                  ELSE <<headers[i].line,
                         NextBoundary(headers, i + 1, headers[i].level, range[2])>>
         IN  IF FoundStart(r[1]) THEN r
             ELSE MapRelated(related, k + 1, headers, r)

\* topic.get('related_headers', [])
RelatedOf(topic) ==
    IF "related_headers" \in topic.fields THEN topic.related_headers ELSE <<>>

\* the topic dict after its range was set
MappedTopic(topic, lines) ==
    LET r == MapRelated(RelatedOf(topic), 1, Headers(lines), <<0, Len(lines)>>) IN
    [type |-> topic.type, fields |-> topic.fields, topic_name |-> topic.topic_name,
     description |-> topic.description, related_headers |-> topic.related_headers,
     content_start |-> r[1], content_end |-> r[2]]

\* whether lines 123-147 raise on the response: json.loads fails, the value
\* cannot be iterated, an item takes no item assignment, or an item has no
\* topic_name or description for the log
ParseRaises(resp) ==
    \/ resp.kind \in {"not_json", "scalar"}
    \/ \E k \in 1..Len(resp.items) :
          \/ resp.kind # "array"
          \/ resp.items[k].type # "dict"
          \/ ~({"topic_name", "description"} \subseteq resp.items[k].fields)

\* [^\w\s-] removed, then each run of [-\s] replaced by '_'
IsWordChar(c) == c \in {"a", "b", "x", "t", "d", "_"}
IsSepChar(c) == c \in {" ", "-"}

RECURSIVE CollapseSeps(_, _)
CollapseSeps(s, inRun) ==
    IF s = <<>> THEN <<>>
    ELSE IF IsSepChar(s[1])
         THEN (IF inRun THEN <<>> ELSE <<"_">>) \o CollapseSeps(Tail(s), TRUE)
         ELSE <<s[1]>> \o CollapseSeps(Tail(s), FALSE)

Slug(text) ==
    CollapseSeps(SelectSeq(Lower(text), LAMBDA c : IsWordChar(c) \/ IsSepChar(c)), FALSE)

\* mutant of TopHeaders: the level filter is left out
TopHeadersOfAnyLevel(headers) == headers

\* top_headers = [h for h in headers if h['level'] <= 2]
TopHeaders(headers) == SelectSeq(headers, LAMBDA h : h.level <= 2)

FallbackTopic(top, i, lines) ==
    [topic_name |-> Slug(top[i].text), description |-> top[i].text,
     keywords |-> <<>>, content_start |-> top[i].line,
     content_end |-> NextBoundary(top, i + 1, top[i].level, Len(lines))]

MainContent(lines) ==
    [topic_name |-> <<"main_content">>, description |-> <<"Main document content">>,
     keywords |-> <<>>, content_start |-> 0, content_end |-> Len(lines)]

_fallback_topic_detection(lines, headers, min) ==
    LET top == TopHeaders(headers)
        found == [i \in 1..Len(top) |-> FallbackTopic(top, i, lines)]
    IN  IF Len(found) < min THEN <<MainContent(lines)>> ELSE found

\* self.client.complete(...) raises
AiCompleteRaises ==
    /\ t_pc = "start"
    /\ ai_calls' = ai_calls + 1
    /\ ai_response' = [kind |-> "raise", items |-> <<>>]
    /\ t_pc' = "except"
    /\ UNCHANGED <<t_lines, min_topics, max_topics, topics, t_path>>
    /\ UNCHANGED <<docVars, batchVars, clusterVars, linkVars, linkerVars, guiVars>>

\* self.client.complete(...) returns a response
AiCompleteReturns ==
    /\ t_pc = "start"
    /\ ai_calls' = ai_calls + 1
    /\ ai_response' \in Responses
    /\ t_pc' = "parse"
    /\ UNCHANGED <<t_lines, min_topics, max_topics, topics, t_path>>
    /\ UNCHANGED <<docVars, batchVars, clusterVars, linkVars, linkerVars, guiVars>>

\* lines 115-149 run to the end: return topics
MapTopicsReturns ==
    /\ t_pc = "parse"
    /\ ~ParseRaises(ai_response)
    /\ topics' = [k \in 1..Len(ai_response.items) |->
                     MappedTopic(ai_response.items[k], t_lines)]
    /\ t_path' = "ai"
    /\ t_pc' = "done"
    /\ UNCHANGED <<t_lines, min_topics, max_topics, ai_response, ai_calls>>
    /\ UNCHANGED <<docVars, batchVars, clusterVars, linkVars, linkerVars, guiVars>>

\* lines 115-149 raise: the except clause is entered
MapTopicsRaises ==
    /\ t_pc = "parse"
    /\ ParseRaises(ai_response)
    /\ t_pc' = "except"
    /\ UNCHANGED <<t_lines, min_topics, max_topics, ai_response, ai_calls, topics, t_path>>
    /\ UNCHANGED <<docVars, batchVars, clusterVars, linkVars, linkerVars, guiVars>>

\* except Exception: return self._fallback_topic_detection(...)
FallbackTopicDetection ==
    /\ t_pc = "except"
    /\ topics' = _fallback_topic_detection(t_lines, Headers(t_lines), min_topics)
    /\ t_path' = "fallback"
    /\ t_pc' = "done"
    /\ UNCHANGED <<t_lines, min_topics, max_topics, ai_response, ai_calls>>
    /\ UNCHANGED <<docVars, batchVars, clusterVars, linkVars, linkerVars, guiVars>>

NextTopics ==
    \/ AiCompleteRaises \/ AiCompleteReturns
    \/ MapTopicsReturns \/ MapTopicsRaises
    \/ FallbackTopicDetection

SpecTopics == InitTopics /\ [][NextTopics]_vars

\* C8: on the AI path, a topic with an entry of related_headers that matches
\* a header has content_start at the line of a matched header and content_end
\* at the line of the next header of the same or a lower level, or at the line
\* count; a topic without any match has the range (0, line count).
C8_RangeFollowsMatchedHeader ==
    (t_pc = "done" /\ t_path = "ai") =>
        LET headers == Headers(t_lines) IN
        \A k \in 1..Len(topics) :
            LET related == RelatedOf(topics[k])
                pairs == {p \in (1..Len(related)) \X (1..Len(headers)) :
                             HeaderMatches(related[p[1]], headers[p[2]])}
            IN  IF pairs = {}
                THEN topics[k].content_start = 0 /\ topics[k].content_end = Len(t_lines)
                ELSE \E p \in pairs :
                        /\ topics[k].content_start = headers[p[2]].line
                        /\ topics[k].content_end =
                               NextBoundary(headers, p[2] + 1, headers[p[2]].level,
                                            Len(t_lines))

\* the response is a JSON array of objects that have the four fields
ValidResponse(resp) ==
    /\ resp.kind = "array"
    /\ \A k \in 1..Len(resp.items) :
          resp.items[k].type = "dict" /\ resp.items[k].fields = AllFields

\* C9: when the collaborator call raises or its response is no JSON array of
\* topic objects with the required fields, detect_topics returns the result of
\* the header fallback for the same text and min_topics, after one
\* collaborator call.
C9_InvalidResponseFallsBack ==
    (t_pc = "done" /\ ~ValidResponse(ai_response)) =>
        /\ t_path = "fallback"
        /\ topics = _fallback_topic_detection(t_lines, Headers(t_lines), min_topics)
        /\ ai_calls = 1

-----------------------------------------------------------------------------
(* SemanticLinker: the azure_available flag and the operations of the      *)
(* instance.  SemanticLinkerQdrant.extract_key_concepts is the same code.  *)

MaxAiCalls == 3

\* what self.client.complete and json.loads do in one call: the content is a
\* JSON array of strings, a JSON array of other values, a JSON value that is
\* no array, or no JSON; or the call raises
ConceptOutcomes ==
    {"list", "list_not_strings", "not_list", "not_json", "http_404", "http_other", "error"}

\* the elements of a JSON array: a string, or a value that is none
StringItem == [str |-> TRUE, text |-> "c"]
NumberItem == [str |-> FALSE, text |-> "1"]

\* the status code the except clause tests
NotFound == 404

StatusOf(outcome) ==
    CASE outcome = "http_404" -> NotFound
      [] outcome = "http_other" -> 500
      [] OTHER -> 0

\* mutant of BreakerOpen: the flag is not read
BreakerOpenIgnored(available) == FALSE

\* if not self.azure_available: return []
BreakerOpen(available) == ~available

\* what extract_key_concepts returns for the outcome of the call
ConceptsReturned(outcome) ==
    CASE outcome = "list" -> <<StringItem>>
      [] outcome = "list_not_strings" -> <<NumberItem>>
      [] OTHER -> <<>>

\* the slice key_concepts[:10] that add_semantic_links joins
ConceptsShown == 10

FirstConcepts(key_concepts) ==
    SubSeq(key_concepts, 1,
           IF Len(key_concepts) < ConceptsShown THEN Len(key_concepts) ELSE ConceptsShown)

\* ', '.join(key_concepts[:10]) if key_concepts else ...: str.join raises a
\* TypeError on an item that is no string
JoinRaises(key_concepts) ==
    /\ key_concepts # <<>>
    /\ \E i \in 1..Len(FirstConcepts(key_concepts)) : ~FirstConcepts(key_concepts)[i].str

\* whether the operation raises with these concepts: extract_key_concepts
\* catches every Exception; add_semantic_links builds the metadata from them
RaisesWith(op, key_concepts) == op = "add_semantic_links" /\ JoinRaises(key_concepts)

\* mutant of AvailableAfter: every HttpResponseError clears the flag
AvailableAfterAnyHttpError(available, outcome) ==
    IF outcome \in {"http_404", "http_other"} THEN FALSE ELSE available

\* self.azure_available after the call: set to False in the 404 branch only
AvailableAfter(available, outcome) ==
    IF outcome \in {"http_404", "http_other"} /\ StatusOf(outcome) = NotFound
    THEN FALSE ELSE available

InitLinker ==
    /\ DocIdle /\ BatchIdle /\ ClusterIdle /\ LinkIdle /\ TopicIdle
    /\ LinkerConstructed /\ GuiIdle

SetProgressCallback ==
    /\ progress_callback' \in BOOLEAN
    /\ k_last' = [NoOperation EXCEPT !.op = "set_progress_callback"]
    /\ UNCHANGED <<azure_available, collection, k_ai_calls>>
    /\ UNCHANGED <<docVars, batchVars, clusterVars, linkVars, topicVars, guiVars>>

InitializeVectorDb ==
    /\ collection' = TRUE
    /\ k_last' = [NoOperation EXCEPT !.op = "initialize_vector_db"]
    /\ UNCHANGED <<azure_available, progress_callback, k_ai_calls>>
    /\ UNCHANGED <<docVars, batchVars, clusterVars, linkVars, topicVars, guiVars>>

\* extract_key_concepts returns at once: the flag is False
ExtractSkipped(op) ==
    /\ BreakerOpen(azure_available)
    /\ k_last' = [op |-> op, outcome |-> "skipped", invoked |-> FALSE, returned |-> <<>>,
                  raised |-> RaisesWith(op, <<>>)]
    /\ UNCHANGED <<azure_available, k_ai_calls>>

\* extract_key_concepts calls the collaborator
ExtractCalls(op) ==
    /\ ~BreakerOpen(azure_available)
    /\ k_ai_calls < MaxAiCalls
    /\ \E outcome \in ConceptOutcomes :
          /\ azure_available' = AvailableAfter(azure_available, outcome)
          /\ k_last' = [op |-> op, outcome |-> outcome, invoked |-> TRUE,
                        returned |-> ConceptsReturned(outcome),
                        raised |-> RaisesWith(op, ConceptsReturned(outcome))]
    /\ k_ai_calls' = k_ai_calls + 1

ExtractKeyConcepts ==
    /\ ExtractSkipped("extract_key_concepts") \/ ExtractCalls("extract_key_concepts")
    /\ UNCHANGED <<progress_callback, collection>>
    /\ UNCHANGED <<docVars, batchVars, clusterVars, linkVars, topicVars, guiVars>>

\* add_semantic_links: self.extract_key_concepts(markdown_text) if
\* self.azure_available else []
AddSemanticLinks ==
    /\ collection
    /\ \/ /\ ~azure_available
          /\ k_last' = [op |-> "add_semantic_links", outcome |-> "unavailable",
                        invoked |-> FALSE, returned |-> <<>>,
                        raised |-> RaisesWith("add_semantic_links", <<>>)]
          /\ UNCHANGED <<azure_available, k_ai_calls>>
       \/ /\ azure_available
          /\ ExtractSkipped("add_semantic_links") \/ ExtractCalls("add_semantic_links")
    /\ UNCHANGED <<progress_callback, collection>>
    /\ UNCHANGED <<docVars, batchVars, clusterVars, linkVars, topicVars, guiVars>>

NextLinker ==
    \/ SetProgressCallback \/ InitializeVectorDb
    \/ ExtractKeyConcepts \/ AddSemanticLinks

SpecLinker == InitLinker /\ [][NextLinker]_vars

\* C10: a call that observes HTTP 404 leaves azure_available false; once false
\* it stays false, and an extract_key_concepts call made then returns the
\* empty list without a call of the collaborator.
C10_BreakerStaysOpen ==
    [][/\ (k_last'.outcome = "http_404" /\ k_ai_calls' # k_ai_calls) => ~azure_available'
       /\ ~azure_available =>
             /\ ~azure_available'
             /\ k_ai_calls' = k_ai_calls
             /\ k_last'.op = "extract_key_concepts" =>
                    k_last'.returned = <<>> /\ ~k_last'.invoked]_vars

\* C17: whatever the collaborator call of extract_key_concepts does (it
\* raises, returns text that is no JSON, JSON that is no array, an array of
\* values that are no strings), neither extract_key_concepts nor
\* add_semantic_links raises, and every response but an array of strings
\* counts as the empty concept list.
C17_ConceptFailuresAreNotFatal ==
    /\ ~k_last.raised
    /\ (k_last.invoked /\ k_last.outcome # "list") => k_last.returned = <<>>

\* the breaker opened and a later extract_key_concepts call was skipped
C10_Witness ==
    /\ ~azure_available
    /\ k_last.op = "extract_key_concepts" /\ k_last.outcome = "skipped"
    /\ k_ai_calls >= 2

-----------------------------------------------------------------------------
(* Properties of the document pipeline *)

RECURSIVE ConcatLines(_)
\* the lines of a list of sections, in list order
ConcatLines(secs) ==
    IF secs = <<>> THEN <<>> ELSE secs[1].lines \o ConcatLines(Tail(secs))

DocLines == SplitLines(markdown_text)

\* the part is one line whose own word count exceeds the bound
AtomicOversized(part, max) ==
    Len(part.lines) = 1 /\ estimate_words(part.lines[1]) > max

\* C1: every part split_large_sections emits has word_count <= max_words,
\* unless it is a single line whose own word count exceeds max_words; parts
\* that start with overlap lines included.
C1_PartsWithinMaxWords ==
    pc = "done" =>
        \A k \in 1..Len(chunks) :
            \/ chunks[k].word_count <= max_words
            \/ AtomicOversized(chunks[k], max_words)

\* C2: the lines of the sections split_by_sections returns, concatenated in
\* order, are the document's lines; each section holds the lines from its
\* start_line to its end_line and the sections follow one another without gap.
C2_SectionsPartitionLines ==
    pc = "split" =>
        /\ ConcatLines(sections) = DocLines
        /\ \A k \in 1..Len(sections) :
              /\ sections[k].lines =
                     SubSeq(DocLines, sections[k].start_line + 1, sections[k].end_line)
              /\ sections[k].start_line = (IF k = 1 THEN 0 ELSE sections[k - 1].end_line)
        /\ sections[Len(sections)].end_line = Len(DocLines)

C2_Witness ==
    /\ pc = "split"
    /\ Len(sections) >= 3
    /\ sections[1].header = <<"Introduction">>
    /\ \E k \in 1..Len(sections) : Len(sections[k].lines) > OverlapCount

RECURSIVE ContiguousRuns(_, _)
\* every section of `out` is the concatenation of a run of sections of S, the
\* runs following one another and covering S
ContiguousRuns(out, S) ==
    IF out = <<>> THEN S = <<>>
    ELSE \E n \in 1..Len(S) :
            /\ out[1].lines = ConcatLines(SubSeq(S, 1, n))
            /\ ContiguousRuns(Tail(out), SubSeq(S, n + 1, Len(S)))

\* C3: merge_small_sections keeps the lines: the lines of its output, in
\* order, are the lines of its input in order, and every output section is a
\* contiguous run of input sections.
C3_MergeKeepsLines ==
    pc = "merged" =>
        LET S == split_by_sections(markdown_text) IN
        /\ ConcatLines(merged) = ConcatLines(S)
        /\ ContiguousRuns(merged, S)

C3_Witness ==
    /\ pc = "merged"
    /\ Len(merged) >= 2
    /\ Len(merged) < Len(split_by_sections(markdown_text))
    /\ \E k \in 1..Len(merged) :
          \E j \in 1..Len(merged[k].header) : merged[k].header[j] = "&"

\* C4: consecutive parts of one split section: the part that follows starts
\* with the trailing lines of the part before it, exactly OverlapCount (20) of
\* them, fewer only when the part before has fewer than 20 lines.
C4_OverlapIsTwentyLines ==
    pc = "done" =>
        \A k \in 1..(Len(chunks) - 1) :
            (chunk_meta[k].split /\ chunk_meta[k + 1].src = chunk_meta[k].src) =>
                LET n == chunk_meta[k + 1].overlap IN
                /\ SubSeq(chunks[k + 1].lines, 1, n) = LastLines(chunks[k].lines, n)
                /\ \/ n = OverlapCount
                   \/ n < OverlapCount /\ Len(chunks[k].lines) < OverlapCount

-----------------------------------------------------------------------------
(* Configuration values *)

\* C11: a similarity threshold outside [0, 1] (0..10 in tenths) given to
\* cluster_by_similarity or to generate_semantic_links, and max_topics <
\* min_topics given to detect_topics, is rejected before any processing: no
\* such call returns clusters, links or topics, and none calls the AI
\* collaborator.
C11_InvalidConfigurationRejected ==
    /\ c_pc = "done" => threshold \in 0..10
    /\ l_pc = "done" => similarity_threshold \in 0..10
    /\ (ai_calls > 0 \/ t_pc = "done") => max_topics >= min_topics

-----------------------------------------------------------------------------
(* Further properties of the document pipeline *)

\* C12: merge_small_sections leaves its input as it was: after the call the
\* section list equals what split_by_sections returned, and a second call on
\* it with the same min_words returns what the first call returned;
\* split_large_sections leaves the list it was given unchanged.
C12_StagesLeaveInputUnchanged ==
    /\ pc \in {"merged", "done"} =>
          /\ sections = split_by_sections(markdown_text)
          /\ merge_small_sections(sections, min_words).merged = merged
    /\ pc = "done" =>
          merged = merge_small_sections(split_by_sections(markdown_text), min_words).merged

\* C13: every section merge_small_sections returns, except possibly the last,
\* has word_count >= min_words, and the word_count of a returned section is
\* the number of words of the lines it holds.
C13_MergedReachMinWords ==
    pc = "merged" =>
        \A k \in 1..Len(merged) :
            /\ merged[k].word_count = estimate_words(JoinLines(merged[k].lines))
            /\ k < Len(merged) => merged[k].word_count >= min_words

\* a section absorbed its neighbour to reach min_words, and the last section
\* stays below it
C13_Witness ==
    /\ pc = "merged"
    /\ min_words >= 2
    /\ Len(merged) >= 2
    /\ \E j \in 1..Len(merged[1].header) : merged[1].header[j] = "&"
    /\ merged[Len(merged)].word_count < min_words

\* a line with one or two leading '#'
TopLevelHeaderLine(line) == Len(line) > 0 /\ line[1] \in {"#", "##"}

\* C14: split_by_sections starts a section exactly at each line that is a
\* header of level 1 or 2: the sections but the Introduction are, in order,
\* one per such line, starting with it and named by its text; no other line
\* starts a section.  The lines before the first such header form one section
\* with the header "Introduction"; a document without such a header yields
\* one section; no section is without lines.
C14_SectionsStartAtTopHeaders ==
    pc = "split" =>
        LET L == DocLines
            H == {i \in 0..(Len(L) - 1) : TopLevelHeaderLine(L[i + 1])}
            intro == IF TopLevelHeaderLine(L[1]) THEN 0 ELSE 1
        IN  /\ Len(sections) = Cardinality(H) + intro
            /\ H = {} => Len(sections) = 1
            /\ \A k \in 1..Len(sections) :
                  LET s == sections[k] IN
                  /\ s.lines # <<>>
                  /\ \A j \in 2..Len(s.lines) : ~TopLevelHeaderLine(s.lines[j])
                  /\ IF k = 1 /\ intro = 1
                     THEN /\ s.header = <<"Introduction">>
                          /\ s.start_line = 0
                          /\ ~TopLevelHeaderLine(s.lines[1])
                     ELSE /\ s.start_line \in H
                          /\ s.lines[1] = L[s.start_line + 1]
                          /\ s.header = Tail(s.lines[1])
                  /\ k > 1 => sections[k - 1].start_line < s.start_line

\* a level-3 header stays inside the Introduction section, which ends at the
\* level-1 header that follows
C14_Witness ==
    /\ pc = "split"
    /\ Len(sections) >= 2
    /\ sections[1].header = <<"Introduction">>
    /\ \E j \in 1..Len(sections[1].lines) : sections[1].lines[j] = H3Line
    /\ sections[2].lines[1] = H1Line

-----------------------------------------------------------------------------
(* detect_topics with a collaborator that fails at every call *)

NextFallback == AiCompleteRaises \/ FallbackTopicDetection

SpecFallback == InitTopics /\ [][NextFallback]_vars

\* number of leading '#' of a line of characters
HashLevel(line) == Len(line) - Len(LStripHash(line))

\* C15: when the collaborator call fails, detect_topics returns, for a
\* document with at least min_topics headers of level 1 or 2, one topic per
\* such header in document order: topic_name the slug of the header text,
\* content_start the header's line, content_end the line of the next such
\* header of the same or a lower level, else the line count; for any other
\* document, one topic with the range (0, line count).  The list depends on
\* the document and min_topics only.
C15_FallbackFollowsTopHeaders ==
    t_pc = "done" =>
        LET L == t_lines
            H == {i \in 0..(Len(L) - 1) : HashLevel(L[i + 1]) \in {1, 2}}
        IN  /\ t_path = "fallback"
            /\ IF Cardinality(H) >= min_topics
               THEN /\ Len(topics) = Cardinality(H)
                    /\ \A k \in 1..Len(topics) :
                          LET start == topics[k].content_start
                              later == {h \in H : h > start /\
                                           HashLevel(L[h + 1]) <= HashLevel(L[start + 1])}
                          IN  /\ start \in H
                              /\ k > 1 => topics[k - 1].content_start < start
                              /\ topics[k].topic_name = Slug(Strip(LStripHash(L[start + 1])))
                              /\ topics[k].content_end =
                                     (IF later = {} THEN Len(L)
                                      ELSE CHOOSE h \in later : \A g \in later : h <= g)
               ELSE /\ Len(topics) = 1
                    /\ topics[1].content_start = 0
                    /\ topics[1].content_end = Len(L)

\* two topics from a level-1 and a level-2 header with a level-3 header
\* between them: the first topic runs to the end of the document
C15_Witness ==
    /\ t_pc = "done" /\ t_path = "fallback" /\ ai_response.kind = "raise"
    /\ min_topics = 2
    /\ Len(t_lines) = 3 /\ HashLevel(t_lines[2]) = 3
    /\ Len(topics) = 2
    /\ topics[1].content_end = 3 /\ topics[2].content_start = 2

\* C16: the topics one detect_topics call returns have pairwise distinct
\* topic_name values, on the AI path and on the fallback path, so that
\* split_by_topics holds one content entry and writes one file per topic.
C16_TopicNamesAreDistinct ==
    t_pc = "done" =>
        /\ \A j, k \in 1..Len(topics) :
              j # k => topics[j].topic_name # topics[k].topic_name
        /\ Cardinality({topics[k].topic_name : k \in 1..Len(topics)}) = Len(topics)

-----------------------------------------------------------------------------
(* Progress notifications of process_in_batches *)

\* the "Processing chunk i/total" messages the callback received, in order
ChunkNotifications == SelectSeq(progress, LAMBDA m : m.kind = "chunk")

\* C18 as stated: with a progress callback, the callback receives exactly one
\* notification per chunk, each before process_func is invoked on the chunk,
\* whether the processing of the chunk succeeds or raises.
C18_OneNotificationPerChunk ==
    has_callback =>
        /\ Len(calls) <= Len(progress)
        /\ Len(progress) <= Len(calls) + 1
        /\ b_pc = "done" => Len(progress) = Len(b_sections)

\* C18 as amended: with a progress callback, the callback receives exactly one
\* "Processing chunk i/total" notification per chunk, in chunk order and
\* before process_func is invoked on the chunk, whether the chunk succeeds or
\* raises; a chunk that raises is followed by one error notification with
\* the exception's text, right after the notification of that chunk.  Without
\* a callback nothing is emitted.
C18_OneChunkNotificationPerChunk ==
    /\ ~has_callback => progress = <<>>
    /\ has_callback =>
          LET P == ChunkNotifications IN
          /\ Len(calls) <= Len(P)
          /\ Len(P) <= Len(calls) + 1
          /\ b_pc = "call" => Len(P) = Len(calls) + 1
          /\ b_pc = "done" => Len(P) = Len(b_sections)
          /\ \A k \in 1..Len(P) :
                P[k] = [kind |-> "chunk", i |-> k, total |-> Len(b_sections),
                        header |-> b_sections[k].header]
          /\ \A p \in 1..Len(progress) :
                progress[p].kind = "error" =>
                    /\ p > 1
                    /\ progress[p - 1].kind = "chunk"
                    /\ process_func[progress[p - 1].i].raises
                    /\ progress[p].text = process_func[progress[p - 1].i].value
          /\ \A k \in 1..Len(calls) :
                process_func[k].raises =>
                    \E p \in 2..Len(progress) :
                        progress[p].kind = "error" /\ progress[p - 1].i = k

\* three chunks with a callback; the second raises: four messages
C18_Witness ==
    /\ b_pc = "done" /\ has_callback
    /\ Len(b_sections) = 3
    /\ ~process_func[1].raises /\ process_func[2].raises /\ ~process_func[3].raises
    /\ Len(progress) = 4 /\ progress[3].kind = "error"

-----------------------------------------------------------------------------
(* Statistics of prepare_document *)

RECURSIVE SumWordCounts(_)
SumWordCounts(secs) ==
    IF secs = <<>> THEN 0 ELSE secs[1].word_count + SumWordCounts(Tail(secs))

\* C20: the statistics describe the returned chunks: total_chunks is their
\* number, largest_chunk and smallest_chunk the greatest and the least
\* word_count, avg_words_per_chunk the floored mean of the word_count values,
\* hence smallest_chunk <= avg_words_per_chunk <= largest_chunk; chunks that
\* start with overlap lines included.
C20_StatisticsDescribeChunks ==
    pc = "returned" =>
        /\ stats.total_chunks = Len(chunks)
        /\ \A k \in 1..Len(chunks) :
              /\ chunks[k].word_count <= stats.largest_chunk
              /\ chunks[k].word_count >= stats.smallest_chunk
        /\ \E k \in 1..Len(chunks) : chunks[k].word_count = stats.largest_chunk
        /\ \E k \in 1..Len(chunks) : chunks[k].word_count = stats.smallest_chunk
        /\ stats.avg_words_per_chunk = SumWordCounts(chunks) \div Len(chunks)
        /\ stats.smallest_chunk <= stats.avg_words_per_chunk
        /\ stats.avg_words_per_chunk <= stats.largest_chunk

-----------------------------------------------------------------------------
(* cluster_by_similarity on the example of the specification               *)
(* similarities is the matrix of the cosines of the embeddings: the Gram   *)
(* matrix of their unit vectors.  A symmetric matrix with a diagonal of    *)
(* ones is such a matrix exactly when it is positive semidefinite, that    *)
(* is, when all its principal minors are >= 0.  Cosines are in tenths, so  *)
(* the diagonal is 10 and a minor of order k is scaled by 10^k.            *)

\* the cosines a pair may have, in tenths
Cosines == -10..10

\* similarities[i][j] of the full matrix
Cosine(sim, i, j) ==
    IF i = j THEN 10 ELSE IF i < j THEN sim[<<i, j>>] ELSE sim[<<j, i>>]

RemoveAt(q, k) == SubSeq(q, 1, k - 1) \o SubSeq(q, k + 1, Len(q))

RECURSIVE Determinant(_, _, _)
\* the determinant of the rows `rows` and columns `cols`, expanded along the
\* first row
Determinant(sim, rows, cols) ==
    IF rows = <<>> THEN 1
    ELSE LET Term(k) == (IF k % 2 = 1 THEN 1 ELSE -1)
                            * Cosine(sim, rows[1], cols[k])
                            * Determinant(sim, Tail(rows), RemoveAt(cols, k))
             Sum[k \in 0..Len(cols)] == IF k = 0 THEN 0 ELSE Sum[k - 1] + Term(k)
         IN  Sum[Len(cols)]

RECURSIVE Ascending(_)
\* the elements of a set of numbers, ascending
Ascending(S) ==
    IF S = {} THEN <<>>
    ELSE LET x == CHOOSE y \in S : \A z \in S : y <= z IN <<x>> \o Ascending(S \ {x})

\* the matrix is the matrix of the cosines of n embeddings
Realizable(sim, n) ==
    \A S \in SUBSET (0..(n - 1)) : Determinant(sim, Ascending(S), Ascending(S)) >= 0

\* the example: cosine(0,1) = 0.9, cosine(2,3) = 0.9, cosine(0,2) = 0.1, the
\* other pairs as given
ExampleMatrix(c03, c12, c13) ==
    [p \in IndexPairs(4) |->
        CASE p = <<0, 1>> -> 9
          [] p = <<2, 3>> -> 9
          [] p = <<0, 2>> -> 1
          [] p = <<0, 3>> -> c03
          [] p = <<1, 2>> -> c12
          [] p = <<1, 3>> -> c13]

InitClusterExample ==
    /\ DocIdle /\ BatchIdle /\ LinkIdle /\ TopicIdle /\ LinkerConstructed /\ GuiIdle
    /\ c_pc = "start"
    /\ c_n = 4
    /\ similarities \in
          {m \in {ExampleMatrix(a, b, c) : a \in Cosines, b \in Cosines, c \in Cosines} :
              Realizable(m, 4)}
    /\ threshold = 7
    /\ clusters = <<>>

SpecClusterExample == InitClusterExample /\ [][NextCluster]_vars

\* C21: for four items with cosine(0,1) = 0.9, cosine(2,3) = 0.9 and
\* cosine(0,2) = 0.1, whatever the cosines of the other pairs, and threshold
\* 0.7, cluster_by_similarity returns [[0,1],[2,3]].
C21_ExampleClusters ==
    c_pc = "done" => clusters = <<<<0, 1>>, <<2, 3>>>>

\* items 1 and 3 reach the threshold too, and the result is the same
C21_Witness ==
    /\ c_pc = "done"
    /\ similarities[<<1, 3>>] >= threshold
    /\ clusters = <<<<0, 1>>, <<2, 3>>>>

-----------------------------------------------------------------------------
(* Order of the links of a topic *)

\* the place of a topic in the input order
InputIndex(name) == CHOOSE k \in 1..Len(topic_names) : topic_names[k] = name

\* C22: in the list of a topic, related topics with equal similarity stand in
\* the order of the topics in the input, whatever that order and whatever
\* the ties; with the descending similarities this fixes the whole list.
C22_TiesKeepInputOrder ==
    l_pc = "done" =>
        \A a \in TopicSet :
            \A j, k \in 1..Len(links[a]) :
                (j < k /\ links[a][j][2] = links[a][k][2]) =>
                    InputIndex(links[a][j][1]) < InputIndex(links[a][k][1])

\* the input order is C, B, A and both B and A are linked to C with the same
\* similarity: B comes first
C22_Witness ==
    /\ l_pc = "done"
    /\ topic_names = <<"C", "B", "A">>
    /\ Len(links["C"]) = 2
    /\ links["C"][1][1] = "B" /\ links["C"][2][1] = "A"
    /\ links["C"][1][2] = links["C"][2][2]

-----------------------------------------------------------------------------
(* Labels of the parts of split_large_sections *)

\* the indices of the chunks that come from the same section as chunk k
ChunksOfSameSection(k) ==
    {j \in 1..Len(chunks) : chunk_meta[j].src = chunk_meta[k].src}

\* C23: a section split_large_sections emits as one chunk keeps its header,
\* also when it is over max_words and consists of one line; a section emitted
\* as k >= 2 parts has them labelled "<header> (Part 1)" to "<header> (Part k)"
\* in emission order, the last part included.
C23_PartsAreNumbered ==
    pc = "done" =>
        \A k \in 1..Len(chunks) :
            LET same == ChunksOfSameSection(k)
                first == CHOOSE j \in same : \A i \in same : j <= i
                section == merged[chunk_meta[k].src]
            IN  /\ same = first..(first + Cardinality(same) - 1)
                /\ section.word_count <= max_words => Cardinality(same) = 1
                /\ IF Cardinality(same) = 1
                   THEN chunks[k].header = section.header
                   ELSE chunks[k].header =
                            section.header \o <<"(Part", ToString(k - first + 1), ")">>

\* one section is split into two parts and another, a single line over
\* max_words, keeps its header
C23_Witness ==
    /\ pc = "done"
    /\ \E k \in 1..Len(chunks) :
          /\ Cardinality(ChunksOfSameSection(k)) = 1
          /\ chunks[k].word_count > max_words
          /\ chunks[k].header = merged[chunk_meta[k].src].header
    /\ \E k \in 1..Len(chunks) :
          /\ Cardinality(ChunksOfSameSection(k)) >= 2
          /\ chunks[k].header[Len(chunks[k].header) - 1] = "2"

-----------------------------------------------------------------------------
(* The anchor-based greedy reference of cluster_by_similarity *)

RECURSIVE IsAnchor(_, _, _)
\* index i opens a cluster: no anchor before it reaches it
IsAnchor(sim, i, t) ==
    \A a \in 0..(i - 1) : IsAnchor(sim, a, t) => sim[<<a, i>>] < t

\* the anchor index j belongs to: itself, or the lowest anchor that reaches it
AnchorOf(sim, j, t) ==
    IF IsAnchor(sim, j, t) THEN j
    ELSE CHOOSE a \in 0..(j - 1) :
            /\ IsAnchor(sim, a, t) /\ sim[<<a, j>>] >= t
            /\ \A b \in 0..(a - 1) : ~(IsAnchor(sim, b, t) /\ sim[<<b, j>>] >= t)

\* the clusters of the reference: ordered by anchor, members ascending
ReferenceClusters(sim, n, t) ==
    LET anchors == Ascending({i \in 0..(n - 1) : IsAnchor(sim, i, t)})
    IN  [k \in 1..Len(anchors) |->
            Ascending({j \in 0..(n - 1) : AnchorOf(sim, j, t) = anchors[k]})]

-----------------------------------------------------------------------------
(* The result list of process_in_batches while the loop runs *)

\* the entry of chunk i in the list process_in_batches returns
FinalEntry(i) ==
    IF process_func[i].raises
    THEN [section |-> b_sections[i], error |-> process_func[i].value, success |-> FALSE]
    ELSE [section |-> b_sections[i], result |-> process_func[i].value, success |-> TRUE]

\* C25: process_func is invoked once per chunk in list order, and when it is
\* invoked on the k-th chunk the result list holds exactly the k-1 complete
\* entries of the chunks before it; at every point of the loop the result
\* list is a prefix of the final result, without a partial entry.
C25_ResultsAreAPrefix ==
    /\ calls = [i \in 1..Len(calls) |-> i]
    /\ Len(results) = Len(calls)
    /\ results = [i \in 1..Len(results) |-> FinalEntry(i)]
    /\ b_pc \in {"loop", "call"} => Len(results) = b_i - 1
    /\ b_pc = "done" => Len(results) = Len(b_sections)

\* process_func is about to be invoked on the third chunk; the first chunk
\* failed and the second succeeded
C25_Witness ==
    /\ b_pc = "call" /\ b_i = 3
    /\ Len(results) = 2
    /\ ~results[1].success /\ results[2].success

-----------------------------------------------------------------------------
(* The lines of the parts of split_large_sections *)

\* the lines of chunk k without the overlap lines it started with
OwnLines(k) ==
    SubSeq(chunks[k].lines, chunk_meta[k].overlap + 1, Len(chunks[k].lines))

RECURSIVE OwnLinesOf(_, _)
\* the own lines of the chunks k..Len(chunks) that come from section s
OwnLinesOf(s, k) ==
    IF k > Len(chunks) THEN <<>>
    ELSE (IF chunk_meta[k].src = s THEN OwnLines(k) ELSE <<>>) \o OwnLinesOf(s, k + 1)

\* C26: the parts of a section keep its lines and their order: the overlap
\* lines a part starts with are the last lines of the part before it, and
\* the parts without their overlap lines, concatenated in order, are the
\* lines of the section; every part has at least one line.  The loop has
\* ended for every section when split_large_sections returns.
C26_PartsCoverSection ==
    pc = "done" =>
        /\ Len(chunks) = Len(chunk_meta)
        /\ \A s \in 1..Len(merged) : OwnLinesOf(s, 1) = merged[s].lines
        /\ \A k \in 1..Len(chunks) :
              /\ chunks[k].lines # <<>>
              /\ chunk_meta[k].overlap < Len(chunks[k].lines)
              /\ chunk_meta[k].overlap > 0 =>
                    /\ k > 1 /\ chunk_meta[k - 1].src = chunk_meta[k].src
                    /\ SubSeq(chunks[k].lines, 1, chunk_meta[k].overlap) =
                           LastLines(chunks[k - 1].lines, chunk_meta[k].overlap)

\* a part starts with the last 20 lines of the part before it, a word among
\* them
C26_Witness ==
    /\ pc = "done"
    /\ \E k \in 2..Len(chunks) :
          /\ chunk_meta[k].overlap = OverlapCount
          /\ estimate_words(JoinLines(SubSeq(chunks[k].lines, 1, OverlapCount))) > 0

-----------------------------------------------------------------------------
(* The line range of a topic and extract_topic_content *)

\* lines[start:end] for start, end >= 0
extract_topic_content(lines, topic) ==
    LET start == IF topic.content_start > Len(lines) THEN Len(lines) ELSE topic.content_start
        end == IF topic.content_end > Len(lines) THEN Len(lines) ELSE topic.content_end
    IN  SubSeq(lines, start + 1, end)

\* C27: every topic detect_topics returns, on the AI path and on the fallback
\* path, has 0 <= content_start <= content_end <= number of lines, and
\* extract_topic_content returns the content_end - content_start lines of the
\* range.
C27_RangesAreWellFormed ==
    t_pc = "done" =>
        \A k \in 1..Len(topics) :
            /\ 0 <= topics[k].content_start
            /\ topics[k].content_start <= topics[k].content_end
            /\ topics[k].content_end <= Len(t_lines)
            /\ Len(extract_topic_content(t_lines, topics[k])) =
                   topics[k].content_end - topics[k].content_start

-----------------------------------------------------------------------------
(* Failures of extract_key_concepts that leave the flag alone *)

\* the outcomes of the call that the except clauses and the isinstance test
\* turn into [] without the 404 branch
NonFatalOutcomes == {"http_other", "error", "not_json", "not_list"}

\* C28: an extract_key_concepts call whose collaborator call fails with an
\* HTTP status other than 404 or with any other exception, or returns text
\* that is no JSON or no array, returns the empty list and leaves
\* azure_available true; with azure_available true an extract_key_concepts
\* call invokes the collaborator, so the call after such a failure does.
C28_NonFatalFailureKeepsBreakerClosed ==
    [][/\ (/\ k_last'.op = "extract_key_concepts"
           /\ k_ai_calls' # k_ai_calls
           /\ k_last'.outcome \in NonFatalOutcomes) =>
              /\ k_last'.returned = <<>>
              /\ ~k_last'.raised
              /\ azure_available'
       /\ (azure_available /\ k_last'.op = "extract_key_concepts") =>
              /\ k_last'.invoked
              /\ k_ai_calls' = k_ai_calls + 1
       /\ (k_last.outcome \in NonFatalOutcomes /\ k_last.op = "extract_key_concepts") =>
              azure_available]_vars

\* a second call has failed with an HTTP status other than 404 and the flag
\* is still true
C28_Witness ==
    /\ k_last.op = "extract_key_concepts"
    /\ k_last.outcome = "http_other"
    /\ k_last.invoked
    /\ k_ai_calls = 2
    /\ azure_available

-----------------------------------------------------------------------------
(* NerdbuntuApp: the Process button and the worker threads.  The UI thread *)
(* runs one handler or one callback of root.after at a time; a worker      *)
(* thread runs between them, one statement group at a time.  The callbacks *)
(* that write the log, the status bar and the dialogs are left out: they   *)
(* read the state and change none of it.  Each += on bulk_stats is one     *)
(* step.                                                                   *)

MaxWorkers == 2
MaxFiles == 2

\* the PDF files of the input directory, by stem
FileNames == 1..MaxFiles

\* what glob.glob may return: the files that match, none twice
FileLists == {Ascending(S) : S \in SUBSET FileNames}

InitGui ==
    /\ DocIdle /\ BatchIdle /\ ClusterIdle /\ LinkIdle /\ TopicIdle
    /\ LinkerConstructed
    /\ AppConstructed
    /\ output_files \in SUBSET FileNames

\* threading.Thread(target=..., daemon=True).start()
StartThread(target, files) ==
    Append(workers, [target |-> target, pc |-> "start", files |-> files, idx |-> 1,
                     reported |-> NoBulkStats])

\* the other variable groups
engineVars == <<docVars, batchVars, clusterVars, linkVars, topicVars, linkerVars>>

\* a click on the Process button while the mode is 'file': a disabled button
\* takes no click.  process_single_file returns after an error dialog when the
\* entry is empty or names no file, and starts the thread otherwise.
ProcessSingleFile ==
    /\ UNCHANGED engineVars
    /\ process_btn = "normal"
    /\ Len(workers) < MaxWorkers
    /\ \E input_file \in FileNames, exists \in BOOLEAN :
          workers' = IF exists THEN StartThread("file", <<input_file>>) ELSE workers
    /\ UNCHANGED <<process_btn, ui_queue, bulk_stats, output_files>>

\* a click on the Process button while the mode is 'directory':
\* process_directory returns when no file matches or the user answers no,
\* and starts the thread otherwise.
ProcessDirectory ==
    /\ UNCHANGED engineVars
    /\ process_btn = "normal"
    /\ Len(workers) < MaxWorkers
    /\ \E files \in FileLists, response \in BOOLEAN :
          workers' = IF files # <<>> /\ response
                     THEN StartThread("directory", files) ELSE workers
    /\ UNCHANGED <<process_btn, ui_queue, bulk_stats, output_files>>

\* the event loop runs the oldest callback: process_btn.config(state=...)
RunCallback ==
    /\ UNCHANGED engineVars
    /\ ui_queue # <<>>
    /\ process_btn' = Head(ui_queue)
    /\ ui_queue' = Tail(ui_queue)
    /\ UNCHANGED <<workers, bulk_stats, output_files>>

\* the first statements of both thread functions:
\* self.root.after(0, lambda: self.process_btn.config(state="disabled"))
DisableUi(w) ==
    /\ w <= Len(workers)
    /\ UNCHANGED engineVars
    /\ workers[w].pc = "start"
    /\ ui_queue' = Append(ui_queue, "disabled")
    /\ workers' = [workers EXCEPT ![w].pc =
                       IF workers[w].target = "directory" THEN "reset" ELSE "logic"]
    /\ UNCHANGED <<process_btn, bulk_stats, output_files>>

\* self.bulk_stats = {'total': len(files), 'processed': 0, ...}
ResetStats(w) ==
    /\ w <= Len(workers)
    /\ UNCHANGED engineVars
    /\ workers[w].pc = "reset"
    /\ bulk_stats' = [NoBulkStats EXCEPT !.total = Len(workers[w].files)]
    /\ workers' = [workers EXCEPT ![w].pc = "loop"]
    /\ UNCHANGED <<process_btn, ui_queue, output_files>>

\* where the for loop is after the file at idx
AfterFile(worker) ==
    [worker EXCEPT !.idx = @ + 1,
                   !.pc = IF worker.idx + 1 > Len(worker.files) THEN "summary" ELSE "loop"]

\* mutant of AfterSkip: a skipped file is counted as processed too
AfterSkipCountsProcessed(st) == [st EXCEPT !.skipped = @ + 1, !.processed = @ + 1]

\* self.bulk_stats['skipped'] += 1; continue
AfterSkip(st) == [st EXCEPT !.skipped = @ + 1]

\* the try around _process_single_file_logic
AfterLogic(st, raises) ==
    IF raises THEN [st EXCEPT !.failed = @ + 1] ELSE [st EXCEPT !.successful = @ + 1]

\* one file of the bulk loop up to the counter of its outcome: the check
\* button of skip_existing is read for each file; the logic raises or writes
\* the output file
BulkFile(w) ==
    /\ w <= Len(workers)
    /\ UNCHANGED engineVars
    /\ workers[w].pc = "loop"
    /\ LET file == workers[w].files[workers[w].idx] IN
       \E skip_existing \in BOOLEAN :
          IF skip_existing /\ file \in output_files
          THEN /\ bulk_stats' = AfterSkip(bulk_stats)
               /\ workers' = [workers EXCEPT ![w] = AfterFile(@)]
               /\ UNCHANGED output_files
          ELSE \E raises \in BOOLEAN :
                  /\ bulk_stats' = AfterLogic(bulk_stats, raises)
                  /\ output_files' = IF raises THEN output_files
                                     ELSE output_files \cup {file}
                  /\ workers' = [workers EXCEPT ![w].pc = "processed"]
    /\ UNCHANGED <<process_btn, ui_queue>>

\* self.bulk_stats['processed'] += 1
CountProcessed(w) ==
    /\ w <= Len(workers)
    /\ UNCHANGED engineVars
    /\ workers[w].pc = "processed"
    /\ bulk_stats' = [bulk_stats EXCEPT !.processed = @ + 1]
    /\ workers' = [workers EXCEPT ![w] = AfterFile(@)]
    /\ UNCHANGED <<process_btn, ui_queue, output_files>>

\* the final summary: the log lines and the dialog read self.bulk_stats
ReportSummary(w) ==
    /\ w <= Len(workers)
    /\ UNCHANGED engineVars
    /\ workers[w].pc = "summary"
    /\ workers' = [workers EXCEPT ![w].reported = bulk_stats, ![w].pc = "finally"]
    /\ UNCHANGED <<process_btn, ui_queue, bulk_stats, output_files>>

\* _process_file_thread: _process_single_file_logic raises or writes the output
FileLogic(w) ==
    /\ w <= Len(workers)
    /\ UNCHANGED engineVars
    /\ workers[w].pc = "logic"
    /\ \E raises \in BOOLEAN :
          output_files' = IF raises THEN output_files
                          ELSE output_files \cup {workers[w].files[1]}
    /\ workers' = [workers EXCEPT ![w].pc = "finally"]
    /\ UNCHANGED <<process_btn, ui_queue, bulk_stats>>

\* a thread that has returned: its locals are gone
Returned(worker) ==
    [target |-> worker.target, pc |-> "finished", files |-> <<>>, idx |-> 0,
     reported |-> NoBulkStats]

\* finally: self.root.after(0, lambda: self.process_btn.config(state="normal"))
EnableUi(w) ==
    /\ w <= Len(workers)
    /\ UNCHANGED engineVars
    /\ workers[w].pc = "finally"
    /\ ui_queue' = Append(ui_queue, "normal")
    /\ workers' = [workers EXCEPT ![w] = Returned(@)]
    /\ UNCHANGED <<process_btn, bulk_stats, output_files>>

NextGui ==
    \/ ProcessSingleFile \/ ProcessDirectory \/ RunCallback
    \/ \E w \in 1..MaxWorkers :
          \/ DisableUi(w) \/ ResetStats(w) \/ BulkFile(w) \/ CountProcessed(w)
          \/ ReportSummary(w) \/ FileLogic(w) \/ EnableUi(w)

SpecGui == InitGui /\ [][NextGui]_vars

\* the threads that have not returned
ActiveWorkers == {w \in 1..Len(workers) : workers[w].pc # "finished"}

\* the threads that run _process_directory_thread
BulkRuns == {w \in 1..Len(workers) : workers[w].target = "directory"}

\* the second click in directory mode is left out
ProcessDirectoryOnce == BulkRuns = {} /\ ProcessDirectory

NextBulkRun ==
    \/ ProcessSingleFile \/ ProcessDirectoryOnce \/ RunCallback
    \/ \E w \in 1..MaxWorkers :
          \/ DisableUi(w) \/ ResetStats(w) \/ BulkFile(w) \/ CountProcessed(w)
          \/ ReportSummary(w) \/ FileLogic(w) \/ EnableUi(w)

\* the runs of the application with one bulk run, beside single file runs
SpecBulkRun == InitGui /\ [][NextBulkRun]_vars

C30_AtMostOneWorker == Cardinality(ActiveWorkers) <= 1

=============================================================================
